---- MODULE Spec2Model ----
(***************************************************************************)
(* Model of dm3_image_utils.py: the marshaling layer between the DM3 tag   *)
(* tree (nested dicts, lists, scalars, array.array and structarray values) *)
(* and numpy arrays with calibrations.                                     *)
(*                                                                         *)
(* Python values are tagged records.  A dict is a function from its keys   *)
(* (strings) to values, a list a sequence, a text a sequence of UTF-16     *)
(* code units, an ndarray a function from index tuples to elements.  A     *)
(* call returns a result record: ok, or the exception raised and the       *)
(* source line that raised it.  The container codec (parse_dm_header) is   *)
(* outside the module: a stream is modelled by the tag tree it carries.    *)
(***************************************************************************)
EXTENDS Integers, Sequences, FiniteSets, TLC

VARIABLES op, arg, ret, origin, stream, fs

vars == <<op, arg, ret, origin, stream, fs>>

---------------------------------------------------------------------------
(* Bounds of the model.                                                    *)

MaxRank == 4          \* ranks of the arrays drawn: 0 .. MaxRank
MaxExtent == 2        \* extents of the axes of the arrays drawn: 1 .. MaxExtent
MaxVoltage == 2       \* EHT values drawn: 0 .. MaxVoltage
MaxDepth == 3         \* nesting depth of the trees given to fix_strings

---------------------------------------------------------------------------
(* Python values.                                                          *)

None == [kind |-> "none"]
IntVal(i) == [kind |-> "int", i |-> i]
FloatVal(f) == [kind |-> "float", f |-> f]
StrVal(s) == [kind |-> "str", s |-> s]
Dict(d) == [kind |-> "dict", d |-> d]
List(l) == [kind |-> "list", l |-> l]
Array(typecode, items) == [kind |-> "array", typecode |-> typecode, items |-> items]
StructArray(typecodes, raw_data) ==
    [kind |-> "structarray", typecodes |-> typecodes, raw_data |-> raw_data]
NdArray(dtype, shape, elems) ==
    [kind |-> "ndarray", dtype |-> dtype, shape |-> shape, elems |-> elems]
Calibration(offset, scale, units) ==
    [kind |-> "calibration", offset |-> offset, scale |-> scale, units |-> units]

EmptyDict == Dict(<<>>)
EmptyStr == StrVal(<<>>)

\* d[k] = v on a dict
SetItem(d, k, v) == Dict((k :> v) @@ d.d)
\* k in d
Has(d, k) == k \in DOMAIN d.d
\* d.get(k, default)
Get(d, k, default) == IF Has(d, k) THEN d.d[k] ELSE default

\* results of a call
Ok(v) == [ok |-> TRUE, exc |-> "", line |-> 0, val |-> v]
Raise(exc, line) == [ok |-> FALSE, exc |-> exc, line |-> line, val |-> None]

\* bool(x)
Truthy(x) ==
    CASE x.kind = "none" -> FALSE
      [] x.kind = "int" -> x.i # 0
      [] x.kind = "float" -> x.f # 0
      [] x.kind = "str" -> Len(x.s) > 0
      [] x.kind = "dict" -> DOMAIN x.d # {}
      [] x.kind = "list" -> Len(x.l) > 0
      [] x.kind = "array" -> Len(x.items) > 0
      [] OTHER -> TRUE

Reverse(s) == [i \in 1..Len(s) |-> s[Len(s) + 1 - i]]

---------------------------------------------------------------------------
(* numpy element types and the type registry.                              *)

itemsize(dtype) ==
    CASE dtype \in {"int8", "uint8"} -> 1
      [] dtype \in {"int16", "uint16"} -> 2
      [] dtype \in {"int32", "uint32", "float32"} -> 4
      [] dtype \in {"int64", "uint64", "float64", "complex64"} -> 8
      [] dtype = "complex128" -> 16

\* nparr.dtype.char
char(dtype) ==
    CASE dtype = "int8" -> "b"    [] dtype = "uint8" -> "B"
      [] dtype = "int16" -> "h"   [] dtype = "uint16" -> "H"
      [] dtype = "int32" -> "i"   [] dtype = "uint32" -> "I"
      [] dtype = "int64" -> "l"   [] dtype = "uint64" -> "L"
      [] dtype = "float32" -> "f" [] dtype = "float64" -> "d"
      [] dtype = "complex64" -> "F" [] dtype = "complex128" -> "D"

\* np.dtype(typecode) of an array.array typecode
typecode_dtype(typecode) ==
    CASE typecode = "b" -> "int8"    [] typecode = "B" -> "uint8"
      [] typecode = "h" -> "int16"   [] typecode = "H" -> "uint16"
      [] typecode = "i" -> "int32"   [] typecode = "I" -> "uint32"
      [] typecode = "l" -> "int64"   [] typecode = "L" -> "uint64"
      [] typecode = "f" -> "float32" [] typecode = "d" -> "float64"

structarray_to_np_map ==
    (<<"d", "d">> :> "complex128") @@ (<<"f", "f">> :> "complex64")

np_to_structarray_map ==
    [t \in {structarray_to_np_map[k] : k \in DOMAIN structarray_to_np_map} |->
        CHOOSE k \in DOMAIN structarray_to_np_map : structarray_to_np_map[k] = t]

\* the keys of dm_image_dtypes in the order the dict iterates them
dm_image_dtype_codes == <<1, 2, 3, 6, 7, 9, 10, 11, 12, 13, 14, 23>>

dm_image_dtypes ==
    (1 :> <<"int16", "int16">>) @@ (2 :> <<"float32", "float32">>) @@
    (3 :> <<"Complex64", "complex64">>) @@ (6 :> <<"uint8", "int8">>) @@
    (7 :> <<"int32", "int32">>) @@ (9 :> <<"int8", "int8">>) @@
    (10 :> <<"uint16", "uint16">>) @@ (11 :> <<"uint32", "uint32">>) @@
    (12 :> <<"float64", "float64">>) @@ (13 :> <<"Complex128", "complex128">>) @@
    (14 :> <<"Bool", "int8">>) @@ (23 :> <<"RGB", "int32">>)

---------------------------------------------------------------------------
(* ndarrays: elems maps every index tuple (0-based, one entry per axis) to *)
(* the element stored there.                                               *)

RECURSIVE Product(_)
Product(shape) ==
    IF Len(shape) = 0 THEN 1 ELSE Head(shape) * Product(Tail(shape))

RECURSIVE SeqMax(_)
SeqMax(shape) ==
    IF Len(shape) = 0 THEN 0
    ELSE IF Head(shape) > SeqMax(Tail(shape)) THEN Head(shape) ELSE SeqMax(Tail(shape))

Indices(shape) ==
    {idx \in [1..Len(shape) -> 0..(SeqMax(shape) - 1)] :
        \A i \in 1..Len(shape) : idx[i] < shape[i]}

\* number of elements one step along axis i skips in row-major (C) order
Stride(shape, i) == Product(SubSeq(shape, i + 1, Len(shape)))

RECURSIVE RavelFrom(_, _, _)
RavelFrom(idx, shape, i) ==
    IF i > Len(shape) THEN 0
    ELSE idx[i] * Stride(shape, i) + RavelFrom(idx, shape, i + 1)

\* 0-based position of the element at idx in row-major order
Ravel(idx, shape) == RavelFrom(idx, shape, 1)

Unravel(k, shape) == [i \in 1..Len(shape) |-> (k \div Stride(shape, i)) % shape[i]]

\* nparr.flatten(): the elements in row-major order
flatten(nparr) ==
    [k \in 1..Product(nparr.shape) |-> nparr.elems[Unravel(k - 1, nparr.shape)]]

\* np.asarray(arr, dtype=arr.typecode) and np.frombuffer(...): a 1-d array
asarray(items, dtype) ==
    NdArray(dtype, <<Len(items)>>, [idx \in Indices(<<Len(items)>>) |-> items[idx[1] + 1]])

\* im.reshape(newshape)
reshape(im, newshape, line) ==
    IF Product(newshape) # Product(im.shape) THEN Raise("ValueError", line)
    ELSE Ok(NdArray(im.dtype, newshape,
                    [idx \in Indices(newshape) |-> flatten(im)[Ravel(idx, newshape) + 1]]))

\* bytes(nparr.data) of a complex array: the records (real, imaginary) of
\* the elements in row-major order, one entry per field
raw_data_of(nparr) ==
    [k \in 1..(2 * Product(nparr.shape)) |-> flatten(nparr)[(k + 1) \div 2][2 - (k % 2)]]

\* np.frombuffer(raw_data, dtype=complex): one element per two fields
frombuffer(raw_data, dtype, line) ==
    IF Len(raw_data) % 2 # 0 THEN Raise("ValueError", line)
    ELSE Ok(asarray([k \in 1..(Len(raw_data) \div 2) |-> <<raw_data[2 * k - 1], raw_data[2 * k]>>],
                    dtype))

---------------------------------------------------------------------------
(* ImageData node <-> ndarray.                                             *)

\* the test of line 80 (mutation: the assertion is dropped)
pixel_depth_unchecked(imdict, im) == TRUE

\* the test of line 80
pixel_depth_matches(imdict, im) == imdict.d["PixelDepth"].i = itemsize(im.dtype)

imagedatadict_to_ndarray(imdict) ==
    IF ~Has(imdict, "Data") THEN Raise("KeyError", 69)
    ELSE
    LET arr == imdict.d["Data"]
        im == CASE arr.kind = "array" -> Ok(asarray(arr.items, typecode_dtype(arr.typecode)))
                [] arr.kind = "structarray" ->
                     IF arr.typecodes \notin DOMAIN structarray_to_np_map
                     THEN Raise("KeyError", 77)
                     ELSE frombuffer(arr.raw_data, structarray_to_np_map[arr.typecodes], 75)
                [] OTHER -> Ok(None)
    IN  IF ~im.ok THEN im
        ELSE IF ~Has(imdict, "DataType") THEN Raise("KeyError", 79)
        ELSE IF imdict.d["DataType"].i \notin DOMAIN dm_image_dtypes THEN Raise("KeyError", 79)
        ELSE IF im.val = None THEN Raise("AttributeError", 79)
        ELSE IF dm_image_dtypes[imdict.d["DataType"].i][2] # im.val.dtype
             THEN Raise("AssertionError", 79)
        ELSE IF ~Has(imdict, "PixelDepth") THEN Raise("KeyError", 80)
        ELSE IF ~pixel_depth_matches(imdict, im.val) THEN Raise("AssertionError", 80)
        ELSE IF ~Has(imdict, "Dimensions") THEN Raise("KeyError", 81)
        ELSE reshape(im.val, Reverse([i \in 1..Len(imdict.d["Dimensions"].l) |->
                                         imdict.d["Dimensions"].l[i].i]), 81)

\* next(k for k, v in dm_image_dtypes.items() if v[1] == dtype): the first
\* matching code in iteration order, 0 when the generator is exhausted
RECURSIVE first_code(_, _)
first_code(codes, dtype) ==
    IF Len(codes) = 0 THEN 0
    ELSE IF dm_image_dtypes[Head(codes)][2] = dtype THEN Head(codes)
    ELSE first_code(Tail(codes), dtype)

\* nparr.shape[::-1] (mutation: the shape is stored as it is)
shape_to_dimensions_unreversed(shape) == shape

\* nparr.shape[::-1]
shape_to_dimensions(shape) == Reverse(shape)

ndarray_to_imagedatadict(nparr) ==
    LET dm_type == first_code(dm_image_dtype_codes, nparr.dtype)
        Data == IF nparr.dtype \in DOMAIN np_to_structarray_map
                THEN StructArray(np_to_structarray_map[nparr.dtype], raw_data_of(nparr))
                ELSE Array(char(nparr.dtype), flatten(nparr))
    IN  IF dm_type = 0 THEN Raise("StopIteration", 91)
        ELSE Ok(Dict([Data |-> Data,
                      DataType |-> IntVal(dm_type),
                      PixelDepth |-> IntVal(itemsize(nparr.dtype)),
                      Dimensions |-> List([i \in 1..Len(nparr.shape) |->
                                              IntVal(shape_to_dimensions(nparr.shape)[i])])]))

---------------------------------------------------------------------------
(* fix_strings: array.array values outside "Data" keys become text.        *)

\* the machine representation of one item: size bytes, least significant
\* first (integer typecodes; float arrays are drawn under "Data" keys only)
item_bytes(v, size) ==
    [j \in 1..size |-> ((v % (256 ^ size)) \div (256 ^ (j - 1))) % 256]

RECURSIVE concat_bytes(_, _)
concat_bytes(items, size) ==
    IF Len(items) = 0 THEN <<>>
    ELSE item_bytes(Head(items), size) \o concat_bytes(Tail(items), size)

\* d.tostring()
tostring(d) == concat_bytes(d.items, itemsize(typecode_dtype(d.typecode)))

\* the 16-bit code units of a byte string, first byte least significant
\* (little) or most significant (big)
code_units(bytes, little) ==
    [k \in 1..(Len(bytes) \div 2) |->
        IF little THEN bytes[2 * k - 1] + 256 * bytes[2 * k]
        ELSE 256 * bytes[2 * k - 1] + bytes[2 * k]]

\* no lone surrogate: a high surrogate is followed by a low one
RECURSIVE well_formed(_)
well_formed(units) ==
    IF Len(units) = 0 THEN TRUE
    ELSE IF Head(units) >= 55296 /\ Head(units) <= 56319
         THEN /\ Len(units) >= 2
              /\ units[2] >= 56320 /\ units[2] <= 57343
              /\ well_formed(Tail(Tail(units)))
    ELSE IF Head(units) >= 56320 /\ Head(units) <= 57343 THEN FALSE
    ELSE well_formed(Tail(units))

\* bytes.decode("utf-16"): a byte order mark selects the byte order and is
\* dropped, without one the order is the machine's (little endian)
decode_utf16(bytes, line) ==
    LET bom == IF Len(bytes) >= 2 THEN <<bytes[1], bytes[2]>> ELSE <<>>
        little == bom # <<254, 255>>
        body == IF bom \in {<<255, 254>>, <<254, 255>>}
                THEN SubSeq(bytes, 3, Len(bytes)) ELSE bytes
        units == code_units(body, little)
    IN  IF Len(body) % 2 # 0 \/ ~well_formed(units) THEN Raise("UnicodeDecodeError", line)
        ELSE Ok(StrVal(units))

\* the test of line 135 (mutation: no key is exempt)
is_data_key_never(k) == FALSE

\* the test of line 135
is_data_key(k) == k = "Data"

RECURSIVE fix_strings(_)
fix_strings(d) ==
    CASE d.kind = "dict" ->
           LET r == [k \in DOMAIN d.d |->
                        IF ~is_data_key(k) THEN fix_strings(d.d[k]) ELSE Ok(d.d[k])]
           IN  IF \E k \in DOMAIN d.d : ~r[k].ok
               THEN r[CHOOSE k \in DOMAIN d.d : ~r[k].ok]
               ELSE Ok(Dict([k \in DOMAIN d.d |-> r[k].val]))
      [] d.kind = "list" ->
           LET l == [i \in 1..Len(d.l) |-> fix_strings(d.l[i])]
           IN  IF \E i \in 1..Len(d.l) : ~l[i].ok
               THEN l[CHOOSE i \in 1..Len(d.l) : ~l[i].ok]
               ELSE Ok(List([i \in 1..Len(d.l) |-> l[i].val]))
      [] d.kind = "array" -> decode_utf16(tostring(d), 146)
      [] OTHER -> Ok(d)

---------------------------------------------------------------------------
(* Files.  A stream carries the tag tree the codec reads from it or wrote  *)
(* to it; a file that was opened for writing and never written is empty.   *)

NoFile == None
EmptyFile == [kind |-> "file", written |-> FALSE, tags |-> None]
FileOf(tags) == [kind |-> "file", written |-> TRUE, tags |-> tags]

PathArg(name) == [kind |-> "path", name |-> name]
StreamArg(content) == [kind |-> "stream", content |-> content]

\* parse_dm_header(file): the tag tree of the stream
parse_dm_header_read(content) ==
    IF content.written THEN Ok(content.tags) ELSE Raise("CodecError", 160)

\* parse_dm_header(file, ret): the stream after the tree is written to it
parse_dm_header_write(tags) == FileOf(tags)

---------------------------------------------------------------------------
(* load_image.                                                             *)

img_index == -1

\* l[i] on a list
list_index(l, i, line) ==
    LET j == IF i < 0 THEN Len(l.l) + i + 1 ELSE i + 1
    IN  IF j < 1 \/ j > Len(l.l) THEN Raise("IndexError", line) ELSE Ok(l.l[j])

\* mutation: the first entry is selected
select_first_entry(image_list) == list_index(image_list, 0, 164)

\* dmtag['ImageList'][img_index]
select_entry(image_list) == list_index(image_list, img_index, 164)

\* float(voltage)
to_float(v, line) ==
    CASE v.kind = "int" -> Ok(FloatVal(v.i))
      [] v.kind = "float" -> Ok(v)
      [] v.kind = "str" -> Raise("ValueError", line)
      [] OTHER -> Raise("TypeError", line)

\* (dimension['Origin'], dimension['Scale'], dimension['Units'])
dimension_triple(dimension) ==
    IF {"Origin", "Scale", "Units"} \subseteq DOMAIN dimension.d
    THEN Ok(<<dimension.d["Origin"], dimension.d["Scale"], dimension.d["Units"]>>)
    ELSE Raise("KeyError", 169)

\* the calibrations list after the loop over calibration_tags['Dimension']
dimension_calibrations(calibration_tags) ==
    LET dims == Get(calibration_tags, "Dimension", List(<<>>)).l
        t == [i \in 1..Len(dims) |-> dimension_triple(dims[i])]
    IN  IF \E i \in 1..Len(dims) : ~t[i].ok THEN Raise("KeyError", 169)
        ELSE Ok([i \in 1..Len(dims) |-> t[i].val])

\* mutation: the default scale is 0.0
intensity_of_zero_scale(brightness) ==
    <<Get(brightness, "Origin", FloatVal(0)),
      Get(brightness, "Scale", FloatVal(0)),
      Get(brightness, "Units", EmptyStr)>>

\* line 171
intensity_of(brightness) ==
    <<Get(brightness, "Origin", FloatVal(0)),
      Get(brightness, "Scale", FloatVal(1)),
      Get(brightness, "Units", EmptyStr)>>

\* the voltage test of line 178
has_voltage(voltage) == Truthy(voltage)

\* the properties dict built from the image entry
properties_of(image_tags) ==
    IF ~Has(image_tags, "ImageTags") THEN Ok(EmptyDict)
    ELSE
    LET imported == SetItem(EmptyDict, "imported_properties", image_tags.d["ImageTags"])
        voltage == Get(Get(image_tags.d["ImageTags"], "ImageScanned", EmptyDict),
                       "EHT", EmptyDict)
        f == to_float(voltage, 179)
    IN  IF ~has_voltage(voltage) THEN Ok(imported)
        ELSE IF ~f.ok THEN f
        ELSE Ok(SetItem(SetItem(imported, "autostem",
                                SetItem(EmptyDict, "high_tension_v", f.val)),
                        "extra_high_tension", f.val))

\* lines 161-181: the image of the tag tree the codec returned
load_tags(tags) ==
    LET fixed == fix_strings(tags)
        dmtag == fixed.val
        entry == select_entry(dmtag.d["ImageList"])
        image_tags == entry.val
        data == imagedatadict_to_ndarray(image_tags.d["ImageData"])
        calibration_tags == Get(image_tags.d["ImageData"], "Calibrations", EmptyDict)
        calibrations == dimension_calibrations(calibration_tags)
        brightness == Get(calibration_tags, "Brightness", EmptyDict)
        properties == properties_of(image_tags)
    IN  IF ~fixed.ok THEN fixed
        ELSE IF ~Has(dmtag, "ImageList") THEN Raise("KeyError", 164)
        ELSE IF ~entry.ok THEN entry
        ELSE IF ~Has(image_tags, "ImageData") THEN Raise("KeyError", 165)
        ELSE IF ~data.ok THEN data
        ELSE IF ~calibrations.ok THEN calibrations
        ELSE IF ~properties.ok THEN properties
        ELSE Ok([data |-> data.val,
                 calibrations |-> Reverse(calibrations.val),
                 properties |-> properties.val,
                 intensity |-> intensity_of(brightness),
                 title |-> Get(image_tags, "Name", None)])

\* load_image(file) with the file system files
load_image(file, files) ==
    IF file.kind = "path"
    THEN IF files[file.name] = NoFile THEN Raise("IOError", 158)
         ELSE LET parsed == parse_dm_header_read(files[file.name])
              IN  IF ~parsed.ok THEN parsed ELSE load_tags(parsed.val)
    ELSE LET parsed == parse_dm_header_read(file.content)
         IN  IF ~parsed.ok THEN parsed ELSE load_tags(parsed.val)

---------------------------------------------------------------------------
(* save_image.                                                             *)

\* u(x) and str(x) of a text or None
u(x) == IF x = None THEN EmptyStr ELSE x
str(x) == IF x = None THEN StrVal(<<78, 111, 110, 101>>) ELSE x

\* mutation: the lengths are not compared
calibrations_given(dimensional_calibrations, data) ==
    Truthy(dimensional_calibrations)

\* the test of line 199
calibrations_match(dimensional_calibrations, data) ==
    /\ Truthy(dimensional_calibrations)
    /\ Len(dimensional_calibrations.l) = Len(data.shape)

\* mutation: the calibrations are visited in the order given
dimension_order_given(calibrations) == calibrations

\* the order in which the loop of line 201 visits the calibrations
dimension_order(calibrations) == Reverse(calibrations)

\* the Dimension list filled by the loop of lines 201-206
dimension_list(dimensional_calibrations) ==
    LET cals == dimension_order(dimensional_calibrations.l)
    IN  List([i \in 1..Len(cals) |->
                 Dict([Origin |-> cals[i].offset,
                       Scale |-> cals[i].scale,
                       Units |-> u(cals[i].units)])])

\* lines 196-221: the document handed to the codec
build_document(data, dimensional_calibrations, intensity_calibration, metadata) ==
    LET converted == ndarray_to_imagedatadict(data)
        d0 == converted.val
        d1 == IF calibrations_match(dimensional_calibrations, data)
              THEN SetItem(d0, "Calibrations",
                           SetItem(Get(d0, "Calibrations", EmptyDict), "Dimension",
                                   dimension_list(dimensional_calibrations)))
              ELSE d0
        data_dict ==
              IF Truthy(intensity_calibration)
              THEN SetItem(d1, "Calibrations",
                           SetItem(Get(d1, "Calibrations", EmptyDict), "Brightness",
                                   Dict([Origin |-> intensity_calibration.offset,
                                         Scale |-> intensity_calibration.scale,
                                         Units |-> str(intensity_calibration.units)])))
              ELSE d1
    IN  IF ~converted.ok THEN converted
        ELSE Ok(Dict(
          ("ImageList" :> List(<<Dict([ImageData |-> data_dict, ImageTags |-> metadata])>>)) @@
          ("ImageSourceList" :> List(<<Dict([ClassName |-> StrVal(<<73, 109, 97, 103, 101, 83, 111, 117, 114, 99, 101, 58, 83, 105, 109, 112, 108, 101>>),
                                             Id |-> List(<<IntVal(0)>>),
                                             ImageRef |-> IntVal(0)])>>)) @@
          ("DocumentObjectList" :> List(<<Dict([ImageSource |-> IntVal(0),
                                                AnnotationType |-> IntVal(20)])>>)) @@
          ("Image Behavior" :> Dict([ViewDisplayID |-> IntVal(8)])) @@
          ("InImageMode" :> IntVal(1))))

\* save_image: the result, the content of the file or stream afterwards
save_image(data, dimensional_calibrations, intensity_calibration, metadata, file) ==
    IF file.kind = "path"
    THEN [content |-> EmptyFile, result |-> Raise("NameError", 191)]
    ELSE LET document == build_document(data, dimensional_calibrations,
                                        intensity_calibration, metadata)
         IN  IF ~document.ok THEN [content |-> file.content, result |-> document]
             ELSE [content |-> parse_dm_header_write(document.val), result |-> Ok(None)]

---------------------------------------------------------------------------
(* Inputs.                                                                 *)

\* the text "nm" and the text "e"
nm == <<110, 109>>
e_ == <<101>>

\* a text as the codec returns it: an array.array of 16-bit code units
Text(units) == Array("H", units)

DTypes == {"int16", "float32", "complex64", "int8", "int32", "uint16", "uint32",
           "float64", "complex128", "uint8"}

Shapes == UNION {[1..r -> 1..MaxExtent] : r \in 0..MaxRank}

\* the shapes of the arrays given to save_image: of every rank, extents
\* that differ from one axis to the next
SaveShapes ==
    {[i \in 1..r |-> ((i + k) % MaxExtent) + 1] : r \in 0..MaxRank, k \in 0..(MaxExtent - 1)}

\* the array of the given type and shape whose elements are all different
ArrayOf(dtype, shape) ==
    NdArray(dtype, shape,
            [idx \in Indices(shape) |->
                IF dtype \in {"complex64", "complex128"}
                THEN <<Ravel(idx, shape) + 1, -(Ravel(idx, shape) + 2)>>
                ELSE Ravel(idx, shape) + 1])

\* n axis calibrations, all different
CalibrationList(n) ==
    List([i \in 1..n |-> Calibration(FloatVal(i), FloatVal(10 + i), StrVal(nm))])

\* None, or lists one shorter than, as long as and one longer than the rank
CalibrationChoices(rank) ==
    <<None, CalibrationList(rank), CalibrationList(rank + 1),
      CalibrationList(IF rank = 0 THEN 2 ELSE rank - 1)>>

IntensityChoices == <<None, Calibration(FloatVal(3), FloatVal(7), StrVal(e_))>>

MetadataChoices ==
    <<EmptyDict,
      Dict([ImageScanned |-> Dict([EHT |-> FloatVal(1)]), Name |-> StrVal(nm)])>>

PathNames == {"image.dm3"}

\* ImageData nodes of the documents drawn: a 2x3 int16 image, a complex64
\* image, an int16 image declaring 4 bytes per pixel, an int16 image
\* declaring float32
MainDataPool ==
    <<Dict([Data |-> Array("h", <<1, 2, 3, 4, 5, 6>>),
            DataType |-> IntVal(1), PixelDepth |-> IntVal(2),
            Dimensions |-> List(<<IntVal(3), IntVal(2)>>)]),
      Dict([Data |-> StructArray(<<"f", "f">>, <<1, 2, 3, 4>>),
            DataType |-> IntVal(3), PixelDepth |-> IntVal(8),
            Dimensions |-> List(<<IntVal(2)>>)]),
      Dict([Data |-> Array("h", <<1, 2, 3, 4, 5, 6>>),
            DataType |-> IntVal(1), PixelDepth |-> IntVal(4),
            Dimensions |-> List(<<IntVal(3), IntVal(2)>>)]),
      Dict([Data |-> Array("h", <<1, 2, 3, 4, 5, 6>>),
            DataType |-> IntVal(2), PixelDepth |-> IntVal(2),
            Dimensions |-> List(<<IntVal(3), IntVal(2)>>)])>>

\* the i-th Dimension entry of a document, without the keys in missing
DimensionEntry(i, missing) ==
    Dict([k \in {"Origin", "Scale", "Units"} \ missing |->
             CASE k = "Origin" -> FloatVal(i)
               [] k = "Scale" -> FloatVal(10 + i)
               [] k = "Units" -> Text(nm)])

BrightnessEntry(missing) ==
    Dict([k \in {"Origin", "Scale", "Units"} \ missing |->
             CASE k = "Origin" -> FloatVal(3)
               [] k = "Scale" -> FloatVal(7)
               [] k = "Units" -> Text(e_)])

\* Calibrations nodes of the documents drawn; None: the node is absent
CalibrationsPool ==
    <<None,
      EmptyDict,
      Dict([Dimension |-> List(<<DimensionEntry(1, {}), DimensionEntry(2, {})>>)]),
      Dict([Dimension |-> List(<<DimensionEntry(1, {}), DimensionEntry(2, {})>>),
            Brightness |-> BrightnessEntry({})]),
      Dict([Brightness |-> BrightnessEntry({"Origin", "Units"})]),
      Dict([Dimension |-> List(<<DimensionEntry(1, {"Units"}), DimensionEntry(2, {})>>)]),
      Dict([Dimension |-> List(<<DimensionEntry(1, {}), DimensionEntry(2, {"Origin"})>>)]),
      Dict([Dimension |-> List(<<DimensionEntry(1, {"Scale"}), DimensionEntry(2, {})>>),
            Brightness |-> BrightnessEntry({})]),
      Dict([Dimension |-> List(<<EmptyDict, EmptyDict>>)])>>

\* ImageTags subtrees of the documents drawn; None: the subtree is absent
ImageTagsPool ==
    <<None,
      EmptyDict,
      Dict([ImageScanned |-> EmptyDict]),
      Dict([Acquisition |-> Dict([Device |-> Text(nm)])])>>
    \o [v \in 1..(MaxVoltage + 1) |-> Dict([ImageScanned |-> Dict([EHT |-> IntVal(v - 1)])])]
    \o [v \in 1..(MaxVoltage + 1) |-> Dict([ImageScanned |-> Dict([EHT |-> FloatVal(v - 1)])])]

NamePool == <<None, Text(nm)>>

\* an ImageList entry; None for an absent part
Entry(image_data, calibrations, name, image_tags) ==
    Dict(("ImageData" :> (IF calibrations = None THEN image_data
                          ELSE SetItem(image_data, "Calibrations", calibrations)))
         @@ (IF name = None THEN <<>> ELSE ("Name" :> name))
         @@ (IF image_tags = None THEN <<>> ELSE ("ImageTags" :> image_tags)))

\* the entries that precede the image: none, a thumbnail, a thumbnail with
\* an array that is no UTF-16 text
ThumbnailPool ==
    <<<<>>,
      <<Entry(Dict([Data |-> Array("b", <<7, 8>>),
                    DataType |-> IntVal(9), PixelDepth |-> IntVal(1),
                    Dimensions |-> List(<<IntVal(2)>>)]),
              Dict([Dimension |-> List(<<DimensionEntry(5, {})>>),
                    Brightness |-> BrightnessEntry({"Units"})]),
              Text(e_),
              Dict([ImageScanned |-> Dict([EHT |-> FloatVal(9)])]))>>,
      <<Entry(Dict([Data |-> Array("b", <<7, 8>>),
                    DataType |-> IntVal(9), PixelDepth |-> IntVal(1),
                    Dimensions |-> List(<<IntVal(2)>>)]),
              None, Array("b", <<1>>), None)>>>>

Document(entries) == Dict([ImageList |-> List(entries), InImageMode |-> IntVal(1)])

\* Data, DataType, PixelDepth and Dimensions of the ImageData nodes given
\* to imagedatadict_to_ndarray
DataPool ==
    <<Array("h", <<1, 2, 3, 4>>),
      Array("b", <<1, 2, 3, 4>>),
      Array("B", <<1, 2, 3, 4>>),
      Array("f", <<1, 2, 3, 4>>),
      StructArray(<<"f", "f">>, <<1, 2, 3, 4, 5, 6, 7, 8>>),
      StructArray(<<"d", "d">>, <<1, 2, 3, 4, 5, 6, 7, 8>>),
      StructArray(<<"f", "d">>, <<1, 2, 3, 4, 5, 6, 7, 8>>),
      IntVal(0)>>

DataTypeCodes == DOMAIN dm_image_dtypes \cup {8}

PixelDepths == {1, 2, 4, 8, 16}

DimensionsPool == {<<4>>, <<2, 2>>, <<1, 4>>, <<3>>}

ImageDataOf(data, code, depth, dims) ==
    Dict([Data |-> data, DataType |-> IntVal(code), PixelDepth |-> IntVal(depth),
          Dimensions |-> List([i \in 1..Len(dims) |-> IntVal(dims[i])])])

---------------------------------------------------------------------------
(* The calls.  op, arg and ret describe the latest call, stream the stream *)
(* object handed to it (None when it got a path), fs the files on disk.    *)
(* origin keeps the inputs a chained call's argument was made from.  The   *)
(* calls share nothing but the stream and the files, so a behaviour is one *)
(* call on inputs drawn afresh, followed by loads of what it left behind.  *)

Init ==
    /\ op = "init"
    /\ arg = None
    /\ ret = Ok(None)
    /\ origin = None
    /\ stream = NoFile
    /\ fs = [n \in PathNames |->
                FileOf(Document(<<Entry(MainDataPool[1], CalibrationsPool[4],
                                        Text(nm), ImageTagsPool[2])>>))]

SaveArgs(data, c, i, m, file) ==
    [data |-> data,
     file |-> file,
     dimensional_calibrations |-> CalibrationChoices(Len(data.shape))[c],
     intensity_calibration |-> IntensityChoices[i],
     metadata |-> MetadataChoices[m]]

DoSave(a) ==
    LET saved == save_image(a.data, a.dimensional_calibrations, a.intensity_calibration,
                            a.metadata, a.file)
    IN  /\ op' = "save_image"
        /\ arg' = a
        /\ ret' = saved.result
        /\ origin' = None
        /\ stream' = IF a.file.kind = "path" THEN NoFile ELSE saved.content
        /\ fs' = IF a.file.kind = "path" THEN [fs EXCEPT ![a.file.name] = saved.content]
                 ELSE fs

\* save_image(..., file) with a freshly opened stream
SaveStream ==
    /\ op = "init"
    /\ \E dtype \in DTypes, shape \in SaveShapes, c \in 1..4,
       i \in 1..Len(IntensityChoices), m \in 1..Len(MetadataChoices) :
        DoSave(SaveArgs(ArrayOf(dtype, shape), c, i, m, StreamArg(EmptyFile)))

\* save_image(..., file) with a path
SavePath ==
    /\ op = "init"
    /\ \E dtype \in DTypes, shape \in SaveShapes, c \in 1..4,
       i \in 1..Len(IntensityChoices), m \in 1..Len(MetadataChoices), name \in PathNames :
        DoSave(SaveArgs(ArrayOf(dtype, shape), c, i, m, PathArg(name)))

DoLoad(file, from) ==
    /\ op' = "load_image"
    /\ arg' = [file |-> file]
    /\ ret' = load_image(file, fs)
    /\ origin' = from
    /\ stream' = IF file.kind = "path" THEN NoFile ELSE file.content
    /\ UNCHANGED fs

\* load_image(file) with the stream the latest save_image was given
LoadStream ==
    /\ op = "save_image"
    /\ arg.file.kind = "stream"
    /\ DoLoad(StreamArg(stream), arg)

\* load_image(file) with a path
LoadPath ==
    \E name \in PathNames : DoLoad(PathArg(name), None)

\* load_image(file) with a stream that carries a document of the pools
LoadDocument ==
    /\ op = "init"
    /\ \E d \in 1..Len(MainDataPool), c \in 1..Len(CalibrationsPool),
       n \in 1..Len(NamePool), t \in 1..Len(ImageTagsPool), th \in 1..Len(ThumbnailPool) :
        DoLoad(StreamArg(FileOf(Document(
                   ThumbnailPool[th] \o
                   <<Entry(MainDataPool[d], CalibrationsPool[c], NamePool[n],
                           ImageTagsPool[t])>>))),
               None)

---------------------------------------------------------------------------
(* The marshaler alone: ndarray -> ImageData node -> ndarray.              *)

\* ndarray_to_imagedatadict(nparr)
NdarrayToImagedatadict ==
    /\ op = "init"
    /\ \E dtype \in DTypes, shape \in Shapes :
        /\ op' = "ndarray_to_imagedatadict"
        /\ arg' = ArrayOf(dtype, shape)
        /\ ret' = ndarray_to_imagedatadict(ArrayOf(dtype, shape))
        /\ origin' = None
    /\ UNCHANGED <<stream, fs>>

\* imagedatadict_to_ndarray(imdict) with the node the latest call returned
ImagedatadictToNdarrayOfResult ==
    /\ op = "ndarray_to_imagedatadict"
    /\ ret.ok
    /\ op' = "imagedatadict_to_ndarray"
    /\ arg' = ret.val
    /\ ret' = imagedatadict_to_ndarray(ret.val)
    /\ origin' = arg
    /\ UNCHANGED <<stream, fs>>

\* imagedatadict_to_ndarray(imdict) with a node of the pools
ImagedatadictToNdarray ==
    /\ op = "init"
    /\ \E d \in 1..Len(DataPool), code \in DataTypeCodes, depth \in PixelDepths,
          dims \in DimensionsPool :
        /\ op' = "imagedatadict_to_ndarray"
        /\ arg' = ImageDataOf(DataPool[d], code, depth, dims)
        /\ ret' = imagedatadict_to_ndarray(ImageDataOf(DataPool[d], code, depth, dims))
        /\ origin' = None
    /\ UNCHANGED <<stream, fs>>

Next ==
    \/ SaveStream \/ SavePath \/ LoadStream \/ LoadPath \/ LoadDocument
    \/ ImagedatadictToNdarray

Spec == Init /\ [][Next]_vars

NextMarshal ==
    NdarrayToImagedatadict \/ ImagedatadictToNdarrayOfResult \/ ImagedatadictToNdarray

SpecMarshal == Init /\ [][NextMarshal]_vars

---------------------------------------------------------------------------
(* fix_strings alone, on trees that hold one leaf at the end of a path of  *)
(* dict keys and list positions.                                           *)

\* the steps of a path: a dict key, or "item" for the second item of a list
Steps == {"Data", "Name", "ImageTags", "item"}

Paths == UNION {[1..n -> Steps] : n \in 0..MaxDepth}

\* the leaves: scalars, texts as arrays of 16-bit units and of bytes (the
\* second with a byte order mark), an array of one byte, a structarray
LeafPool ==
    <<IntVal(5),
      StrVal(nm),
      Text(nm),
      Array("B", <<110, 0, 109, 0>>),
      Array("B", <<255, 254, 101, 0>>),
      Array("b", <<1>>),
      StructArray(<<"f", "f">>, <<1, 2>>),
      None>>

\* the tree with the leaf at the end of the path; every dict on the way
\* also holds a text under "Units" and (beside another key) under "Data"
RECURSIVE TreeOf(_, _)
TreeOf(path, leaf) ==
    IF Len(path) = 0 THEN leaf
    ELSE IF Head(path) = "item" THEN List(<<Text(e_), TreeOf(Tail(path), leaf)>>)
    ELSE Dict((Head(path) :> TreeOf(Tail(path), leaf))
              @@ ("Units" :> Text(nm)) @@ ("Data" :> Text(e_)))

\* fix_strings(d)
FixStrings ==
    /\ op = "init"
    /\ \E path \in Paths, leaf \in 1..Len(LeafPool) :
        /\ op' = "fix_strings"
        /\ arg' = [path |-> path, leaf |-> leaf, tree |-> TreeOf(path, LeafPool[leaf])]
        /\ ret' = fix_strings(TreeOf(path, LeafPool[leaf]))
        /\ origin' = None
    /\ UNCHANGED <<stream, fs>>

NextFix == FixStrings

SpecFix == Init /\ [][NextFix]_vars

---------------------------------------------------------------------------
(* Properties.                                                             *)

\* the element types of the registry
NativeTypes == {dm_image_dtypes[c][2] : c \in DOMAIN dm_image_dtypes}

\* the value at the end of a path of Steps in a tree
RECURSIVE At(_, _)
At(tree, path) ==
    IF Len(path) = 0 THEN tree
    ELSE IF Head(path) = "item" THEN At(tree.l[2], Tail(path))
    ELSE At(tree.d[Head(path)], Tail(path))

\* the ImageList entry load_image is to select: the last one
SelectedEntry(tags) ==
    tags.d["ImageList"].l[Len(tags.d["ImageList"].l)]

\* a load_image call on a stream that carries a document
LoadedDocument ==
    /\ op = "load_image"
    /\ arg.file.kind = "stream"
    /\ arg.file.content.written

\* a load_image call on the stream of a save_image call that was given an
\* array of a native type of rank 1 or more, as many axis calibrations as
\* the rank and an intensity calibration
RoundTripCase ==
    /\ op = "load_image"
    /\ origin # None
    /\ origin.data.dtype \in NativeTypes
    /\ Len(origin.data.shape) >= 1
    /\ origin.dimensional_calibrations # None
    /\ Len(origin.dimensional_calibrations.l) = Len(origin.data.shape)
    /\ origin.intensity_calibration # None

C2_DimensionsLaw ==
    /\ (op = "ndarray_to_imagedatadict" /\ arg.dtype \in NativeTypes) =>
          /\ ret.ok
          /\ ret.val.d["Dimensions"] =
                List([i \in 1..Len(arg.shape) |-> IntVal(arg.shape[Len(arg.shape) + 1 - i])])
          /\ \A idx \in Indices(arg.shape) :
                IF arg.dtype \in {"complex64", "complex128"}
                THEN /\ ret.val.d["Data"].raw_data[2 * Ravel(idx, arg.shape) + 1] = arg.elems[idx][1]
                     /\ ret.val.d["Data"].raw_data[2 * Ravel(idx, arg.shape) + 2] = arg.elems[idx][2]
                ELSE ret.val.d["Data"].items[Ravel(idx, arg.shape) + 1] = arg.elems[idx]
    /\ (op = "imagedatadict_to_ndarray" /\ origin # None) =>
          /\ ret.ok
          /\ ret.val.dtype = origin.dtype
          /\ ret.val.shape = origin.shape
          /\ \A idx \in Indices(origin.shape) : ret.val.elems[idx] = origin.elems[idx]

C2_Witness ==
    /\ op = "imagedatadict_to_ndarray"
    /\ origin # None
    /\ ret.ok
    /\ origin.shape = <<2, 1, 2>>
    /\ origin.dtype = "complex64"
    /\ arg.d["Dimensions"] = List(<<IntVal(2), IntVal(1), IntVal(2)>>)

\* the steps of a path up to and with its first "Data"
RECURSIVE ThroughData(_)
ThroughData(path) ==
    IF Head(path) = "Data" THEN <<"Data">> ELSE <<Head(path)>> \o ThroughData(Tail(path))

\* the leaves of LeafPool as fix_strings is to return them; the sixth is
\* no UTF-16 text
DecodedLeaves ==
    <<IntVal(5), StrVal(nm), StrVal(nm), StrVal(nm), StrVal(e_), None,
      StructArray(<<"f", "f">>, <<1, 2>>), None>>

UndecodableLeaves == {6}

HasData(path) == \E i \in 1..Len(path) : path[i] = "Data"

\* C7: in the tree fix_strings returns, an array reached by a path without
\* a "Data" key is replaced by its UTF-16 text, the value under a "Data" key
\* is the one of the input at every depth, other values are unchanged.
C7_MetadataNormalization ==
    op = "fix_strings" =>
        /\ ret.ok <=> (HasData(arg.path) \/ arg.leaf \notin UndecodableLeaves)
        /\ ret.ok =>
              /\ IF HasData(arg.path)
                 THEN At(ret.val, ThroughData(arg.path)) = At(arg.tree, ThroughData(arg.path))
                 ELSE At(ret.val, arg.path) = DecodedLeaves[arg.leaf]
              /\ \A n \in 0..(Len(arg.path) - 1) :
                    (~HasData(SubSeq(arg.path, 1, n)) /\ arg.path[n + 1] # "item") =>
                        /\ At(ret.val, SubSeq(arg.path, 1, n)).d["Units"] = StrVal(nm)
                        /\ At(ret.val, SubSeq(arg.path, 1, n)).d["Data"]
                              = At(arg.tree, SubSeq(arg.path, 1, n)).d["Data"]
              /\ \A n \in 0..(Len(arg.path) - 1) :
                    (~HasData(SubSeq(arg.path, 1, n)) /\ arg.path[n + 1] = "item") =>
                        At(ret.val, SubSeq(arg.path, 1, n)).l[1] = StrVal(e_)

C7_Witness ==
    /\ op = "fix_strings"
    /\ ret.ok
    /\ arg.path = <<"ImageTags", "item", "Data">>
    /\ arg.leaf = 3
    /\ At(ret.val, <<"ImageTags", "item", "Data">>) = Text(nm)
    /\ At(ret.val, <<"Units">>) = StrVal(nm)

\* the element type the DataType of a node declares
DeclaredType(imdict) == dm_image_dtypes[imdict.d["DataType"].i][2]

\* the element type of the Data of a node; "" when Data is no array.array
\* and no structarray of a known field pair
StoredType(imdict) ==
    CASE imdict.d["Data"].kind = "array" -> typecode_dtype(imdict.d["Data"].typecode)
      [] /\ imdict.d["Data"].kind = "structarray"
         /\ imdict.d["Data"].typecodes \in DOMAIN structarray_to_np_map
         -> structarray_to_np_map[imdict.d["Data"].typecodes]
      [] OTHER -> ""

\* PixelDepth differs from the byte width of the type DataType declares
DepthDisagrees(imdict) ==
    /\ imdict.d["DataType"].i \in DOMAIN dm_image_dtypes
    /\ imdict.d["PixelDepth"].i # itemsize(DeclaredType(imdict))

\* C3 as stated: a node whose PixelDepth differs from the byte width of the
\* type DataType declares makes imagedatadict_to_ndarray fail on the
\* PixelDepth assertion (line 80), and load_image return nothing.
C3_ConsistencyFailure ==
    /\ (op = "imagedatadict_to_ndarray" /\ DepthDisagrees(arg) /\ StoredType(arg) # "") =>
          (~ret.ok /\ ret.exc = "AssertionError" /\ ret.line = 80)
    /\ (LoadedDocument /\ DepthDisagrees(SelectedEntry(arg.file.content.tags).d["ImageData"])) =>
          (~ret.ok /\ ret.val = None)

\* C3 amended: such a node whose Data is an array makes
\* imagedatadict_to_ndarray fail on the PixelDepth assertion (line 80) when
\* Data has the element type DataType declares, and on the element type
\* assertion before it (line 79) when it has another; load_image returns
\* nothing in both cases.
C3_ConsistencyFailureAmended ==
    /\ (op = "imagedatadict_to_ndarray" /\ DepthDisagrees(arg) /\ StoredType(arg) # "") =>
          /\ ~ret.ok
          /\ ret.exc = "AssertionError"
          /\ ret.line = IF StoredType(arg) = DeclaredType(arg) THEN 80 ELSE 79
    /\ (LoadedDocument /\ DepthDisagrees(SelectedEntry(arg.file.content.tags).d["ImageData"])) =>
          (~ret.ok /\ ret.val = None)

C3_Witness ==
    /\ LoadedDocument
    /\ Len(arg.file.content.tags.d["ImageList"].l) = 1
    /\ DepthDisagrees(SelectedEntry(arg.file.content.tags).d["ImageData"])
    /\ StoredType(SelectedEntry(arg.file.content.tags).d["ImageData"])
          = DeclaredType(SelectedEntry(arg.file.content.tags).d["ImageData"])
    /\ ~ret.ok
    /\ ret.exc = "AssertionError"
    /\ ret.line = 80

C5_MissingCalibrationDefaulting ==
    (/\ LoadedDocument
     /\ ~Has(SelectedEntry(arg.file.content.tags).d["ImageData"], "Calibrations")
     /\ ret.ok) =>
        /\ ret.val.calibrations = <<>>
        /\ ret.val.intensity = <<FloatVal(0), FloatVal(1), EmptyStr>>

C5_Witness ==
    /\ LoadedDocument
    /\ ~Has(SelectedEntry(arg.file.content.tags).d["ImageData"], "Calibrations")
    /\ ret.ok
    /\ ret.val.data.shape = <<2, 3>>

\* the triple the per-field defaults give for a Dimension entry
DefaultedTriple(dimension) ==
    <<Get(dimension, "Origin", FloatVal(0)),
      Get(dimension, "Scale", FloatVal(1)),
      Get(dimension, "Units", EmptyStr)>>

\* the Dimension entries of the selected ImageData, texts decoded
SelectedDimensions(tags) ==
    fix_strings(SelectedEntry(tags).d["ImageData"].d["Calibrations"].d["Dimension"]).val.l

\* C6: a Dimension entry that lacks Origin, Scale or Units does not make
\* load_image fail, and its triple has the default in place of each absent
\* field.
C6_PerFieldDefaulting ==
    (/\ LoadedDocument
     /\ Has(SelectedEntry(arg.file.content.tags).d["ImageData"], "Calibrations")
     /\ Has(SelectedEntry(arg.file.content.tags).d["ImageData"].d["Calibrations"], "Dimension")) =>
        /\ ~(ret.exc = "KeyError" /\ ret.line = 169)
        /\ ret.ok =>
              ret.val.calibrations =
                  Reverse([i \in 1..Len(SelectedDimensions(arg.file.content.tags)) |->
                              DefaultedTriple(SelectedDimensions(arg.file.content.tags)[i])])

\* C8: save_image with a path returns without error and leaves in the file
\* the document that save_image with a stream hands to the codec.
C8_PathOrStreamSave ==
    (op = "save_image" /\ arg.file.kind = "path" /\ arg.data.dtype \in NativeTypes) =>
        /\ ret.ok
        /\ fs[arg.file.name] =
              save_image(arg.data, arg.dimensional_calibrations, arg.intensity_calibration,
                         arg.metadata, StreamArg(EmptyFile)).content

\* a save_image call on a stream with an array of a native type and a list
\* of axis calibrations whose length is not the rank
CountMismatch ==
    /\ op = "save_image"
    /\ arg.file.kind = "stream"
    /\ arg.data.dtype \in NativeTypes
    /\ arg.dimensional_calibrations # None
    /\ Len(arg.dimensional_calibrations.l) # Len(arg.data.shape)

\* the ImageData node of the document on the stream
SavedImageData == stream.tags.d["ImageList"].l[1].d["ImageData"]

DimensionCount(image_data) ==
    IF Has(image_data, "Calibrations") /\ Has(image_data.d["Calibrations"], "Dimension")
    THEN Len(image_data.d["Calibrations"].d["Dimension"].l)
    ELSE 0

\* every document save_image builds has no Dimension entry or as many as
\* the rank of the array
DimensionCountLaw ==
    (op = "save_image" /\ arg.file.kind = "stream" /\ stream.written) =>
        DimensionCount(SavedImageData) \in {0, Len(arg.data.shape)}

\* C9 as stated: when the number of axis calibrations differs from the
\* rank, save_image does not fail and the ImageData node has no
\* Calibrations node; every document has 0 or rank Dimension entries.
C9_CountMismatchDegrade ==
    /\ CountMismatch => (ret.ok /\ ~Has(SavedImageData, "Calibrations"))
    /\ DimensionCountLaw

\* C9 amended: when the number of axis calibrations differs from the rank,
\* save_image on a stream does not fail and the ImageData node has no
\* Dimension list; it has a Calibrations node exactly when an intensity
\* calibration is given, and that node holds Brightness alone; every
\* document has 0 or rank Dimension entries.
C9_CountMismatchDegradeAmended ==
    /\ CountMismatch =>
          /\ ret.ok
          /\ Has(SavedImageData, "Calibrations") <=> (arg.intensity_calibration # None)
          /\ Has(SavedImageData, "Calibrations") =>
                DOMAIN SavedImageData.d["Calibrations"].d = {"Brightness"}
    /\ DimensionCountLaw

C9_Witness ==
    /\ CountMismatch
    /\ ret.ok
    /\ Len(arg.dimensional_calibrations.l) = Len(arg.data.shape) + 1
    /\ Has(SavedImageData, "Calibrations")
    /\ SavedImageData.d["Calibrations"].d["Brightness"].d["Scale"] = FloatVal(7)

\* the number a numeric value holds
NumberOf(v) == IF v.kind = "int" THEN v.i ELSE v.f

\* C10: load_image stores the ImageTags subtree of the selected entry under
\* imported_properties; a numeric ImageScanned.EHT in it, 0 included, is
\* returned as a float under autostem.high_tension_v and under
\* extra_high_tension; without ImageScanned.EHT neither key is present.
C10_VoltageDuplication ==
    (LoadedDocument /\ ret.ok /\ Has(SelectedEntry(arg.file.content.tags), "ImageTags")) =>
        LET image_tags == fix_strings(SelectedEntry(arg.file.content.tags).d["ImageTags"]).val
            scanned == Get(image_tags, "ImageScanned", EmptyDict)
            properties == ret.val.properties
        IN  /\ properties.d["imported_properties"] = image_tags
            /\ IF Has(scanned, "EHT")
               THEN /\ Has(properties, "autostem")
                    /\ Has(properties, "extra_high_tension")
                    /\ properties.d["autostem"].d["high_tension_v"]
                          = FloatVal(NumberOf(scanned.d["EHT"]))
                    /\ properties.d["extra_high_tension"]
                          = FloatVal(NumberOf(scanned.d["EHT"]))
               ELSE /\ ~Has(properties, "autostem")
                    /\ ~Has(properties, "extra_high_tension")

====
